---- MODULE Spec2Model ----
(***************************************************************************)
(* The frontend Auth Context of RICHIEAT (AuthContext.jsx): the React      *)
(* state {user, loading, isAuthenticated}, the browser's localStorage keys *)
(* 'token' and 'user', and the four asynchronous operations                *)
(* checkAuthStatus, login, register and logout.  Every operation is an     *)
(* async function with exactly one await: it is modelled as two steps, the *)
(* synchronous part up to the await and the continuation that runs when    *)
(* the awaited authAPI promise settles.  JavaScript runs each of these     *)
(* steps to completion, so each is one atomic action; any number of calls  *)
(* may be suspended at their await at the same time.                       *)
(*                                                                         *)
(* The backend process (backend/index.js) is modelled in the second half:  *)
(* the Express middleware pipeline with its terminal handlers, and the     *)
(* MongoDB connection with its retry loop.  The three parts share no       *)
(* state, so each has its own specification, which leaves the variables of *)
(* the other parts alone.                                                  *)
(***************************************************************************)
EXTENDS Naturals, Sequences, FiniteSets, TLC

VARIABLES user, loading, isAuthenticated, storage, started, pc, lastReturn,
          lastWin, overlapWin

vars == <<user, loading, isAuthenticated, storage, started, pc, lastReturn,
          lastWin, overlapWin>>

\* the backend: the environment's NODE_ENV, the requests being handled, the
\* number of correlation IDs handed out
VARIABLES env, requests, nextId

serverVars == <<env, requests, nextId>>

\* the backend's MongoDB connection: mongoose.connection.readyState, the
\* connect promises not yet settled, the retry timers not yet fired, the
\* database log, whether the database can be reached
VARIABLES readyState, connecting, timers, dbLog, reachable

dbVars == <<readyState, connecting, timers, dbLog, reachable>>

backendVars == <<serverVars, dbVars>>

allVars == <<vars, serverVars, dbVars>>

(* ---- bounds ---------------------------------------------------------- *)

\* number of calls of the context's operations that can be suspended at once
MaxCalls == 2

Calls == 1..MaxCalls

(* ---- values ---------------------------------------------------------- *)

\* JavaScript null and undefined
NULL == "<null>"
UNDEFINED == "<undefined>"

\* advisor objects and bearer tokens a server response can carry
Advisors == {"a1", "a2"}
Tokens == {"t1", "t2"}

\* response.message of a success = false response (it may be missing)
ResponseMessages == {UNDEFINED, "Invalid credentials"}
\* error.message of a rejected authAPI promise (it may be empty)
ErrorMessages == {"", "Network Error"}

\* truthiness of a string-or-null value, as `token && storedUser` tests it
Truthy(v) == v # NULL /\ v # UNDEFINED /\ v # ""

\* a || b
OrElse(a, b) == IF Truthy(a) THEN a ELSE b

\* JSON.stringify of an advisor object
JSON_stringify(a) == "{" \o a \o "}"

(* ---- localStorage ---------------------------------------------------- *)

Keys == {"token", "user"}

EmptyStorage == [k \in Keys |-> NULL]

getItem(st, k) == st[k]

setItem(st, k, v) == [st EXCEPT ![k] = v]

removeItem(st, k) == [st EXCEPT ![k] = NULL]

\* what the page load can find in localStorage: nothing, or the pair an
\* earlier session's login/register left there
StoredSessions ==
    {EmptyStorage} \cup
    {setItem(setItem(EmptyStorage, "token", t), "user", JSON_stringify(a)) :
        t \in Tokens, a \in Advisors}

(* ---- server responses ------------------------------------------------ *)

\* what an awaited authAPI.login / authAPI.register promise settles to
AuthResponses ==
    {[kind |-> "ok", token |-> t, advisor |-> a, message |-> UNDEFINED] :
        t \in Tokens, a \in Advisors} \cup
    {[kind |-> "fail", token |-> UNDEFINED, advisor |-> UNDEFINED, message |-> m] :
        m \in ResponseMessages} \cup
    {[kind |-> "throw", token |-> UNDEFINED, advisor |-> UNDEFINED, message |-> m] :
        m \in ErrorMessages}

\* what an awaited authAPI.getProfile promise settles to
ProfileResponses ==
    {[kind |-> "ok", advisor |-> a] : a \in Advisors} \cup
    {[kind |-> "fail", advisor |-> UNDEFINED], [kind |-> "throw", advisor |-> UNDEFINED]}

\* what an awaited authAPI.logout promise settles to
LogoutResponses == {[kind |-> "resolve"], [kind |-> "reject"]}

(* ---- return values --------------------------------------------------- *)

\* the value of a function that returns nothing
ReturnUndefined == [type |-> UNDEFINED]

\* how an async function settles: resolved with v, or rejected with e
Returned(v) == [threw |-> FALSE, value |-> v]

Thrown(e) == [threw |-> TRUE, value |-> [error |-> e]]

\* the record of the call that settled last: which call of which operation,
\* what its awaited authAPI promise settled to, whether a token was
\* persisted when its continuation began, and how the call itself settled
Settled(c, op, resp, st, ret) ==
    [call |-> c, op |-> op, resp |-> resp,
     hadToken |-> Truthy(getItem(st, "token")),
     threw |-> ret.threw, value |-> ret.value]

NoReturn == Settled(0, "none", [kind |-> "none"], EmptyStorage, Returned(ReturnUndefined))

\* the successful login/register response that resolved last, until a logout
\* or a checkAuthStatus continuation has run after it
NoWin == [call |-> 0, token |-> UNDEFINED, advisor |-> UNDEFINED]

Win(c, resp) == [call |-> c, token |-> resp.token, advisor |-> resp.advisor]

(* ---- the context's state --------------------------------------------- *)

\* the part of the state a continuation reads and writes
Ctx == [user |-> user, isAuthenticated |-> isAuthenticated, storage |-> storage]

Init ==
    /\ user = NULL
    /\ loading = TRUE
    /\ isAuthenticated = FALSE
    /\ storage \in StoredSessions
    /\ started = FALSE
    /\ pc = [c \in Calls |-> "idle"]
    /\ lastReturn = NoReturn
    /\ lastWin = NoWin
    /\ overlapWin = [c \in Calls |-> FALSE]

(* ---- checkAuthStatus (lines 25-49) ----------------------------------- *)

\* a mutant of checkAuthStatus_then: setIsAuthenticated(true) is forgotten
checkAuthStatus_then_userOnly(resp, cx) ==
    IF resp.kind = "ok"
    THEN [cx EXCEPT !.user = resp.advisor]
    ELSE [cx EXCEPT !.storage = removeItem(removeItem(cx.storage, "token"), "user")]

\* a mutant of checkAuthStatus_then: a failed verification removes the
\* token and leaves the stored user
checkAuthStatus_then_tokenOnly(resp, cx) ==
    IF resp.kind = "ok"
    THEN [cx EXCEPT !.user = resp.advisor, !.isAuthenticated = TRUE]
    ELSE [cx EXCEPT !.storage = removeItem(cx.storage, "token")]

\* the continuation after `await authAPI.getProfile()`: the try body from
\* line 33 and the catch block
checkAuthStatus_then(resp, cx) ==
    IF resp.kind = "ok"
    THEN [cx EXCEPT !.user = resp.advisor, !.isAuthenticated = TRUE]
    ELSE [cx EXCEPT !.storage = removeItem(removeItem(cx.storage, "token"), "user")]

\* checkAuthStatus() up to its await; the first call is the one the mount
\* effect makes.  Without a persisted token and user it finishes at once.
CheckAuthStatus(c) ==
    /\ UNCHANGED backendVars
    /\ pc[c] = "idle"
    /\ started' = TRUE
    /\ LET token == getItem(storage, "token")
           storedUser == getItem(storage, "user")
       IN IF Truthy(token) /\ Truthy(storedUser)
          THEN /\ pc' = [pc EXCEPT ![c] = "checkAuthStatus"]
               /\ UNCHANGED <<loading, lastReturn>>
          ELSE /\ loading' = FALSE
               /\ lastReturn' = Settled(c, "checkAuthStatus", [kind |-> "none"], storage,
                                        Returned(ReturnUndefined))
               /\ UNCHANGED pc
    /\ UNCHANGED <<user, isAuthenticated, storage, lastWin, overlapWin>>

\* the getProfile promise of call c settles with resp
CheckAuthStatusSettle(c, resp) ==
    /\ UNCHANGED backendVars
    /\ pc[c] = "checkAuthStatus"
    /\ LET out == checkAuthStatus_then(resp, Ctx)
       IN /\ user' = out.user
          /\ isAuthenticated' = out.isAuthenticated
          /\ storage' = out.storage
    /\ loading' = FALSE
    /\ pc' = [pc EXCEPT ![c] = "idle"]
    /\ lastReturn' = Settled(c, "checkAuthStatus", resp, storage, Returned(ReturnUndefined))
    /\ lastWin' = NoWin
    /\ UNCHANGED <<started, overlapWin>>

(* ---- login (lines 51-78) and register (lines 80-107) ----------------- *)

\* a mutant of login_onSuccess: setItem('user', ...) is forgotten
login_onSuccess_tokenOnly(resp, cx) ==
    [user |-> resp.advisor,
     isAuthenticated |-> TRUE,
     storage |-> setItem(cx.storage, "token", resp.token),
     ret |-> Returned([success |-> TRUE, user |-> resp.advisor])]

\* a mutant of login_onSuccess: a response that arrives when the context is
\* already authenticated is dropped (the first response wins)
login_onSuccess_firstWins(resp, cx) ==
    IF cx.isAuthenticated
    THEN [user |-> cx.user,
          isAuthenticated |-> TRUE,
          storage |-> cx.storage,
          ret |-> Returned([success |-> TRUE, user |-> resp.advisor])]
    ELSE [user |-> resp.advisor,
          isAuthenticated |-> TRUE,
          storage |-> setItem(setItem(cx.storage, "token", resp.token),
                              "user", JSON_stringify(resp.advisor)),
          ret |-> Returned([success |-> TRUE, user |-> resp.advisor])]

\* login, response.success true (lines 56-65): persist the token and the
\* serialized advisor, set the context, resolve with {success: true, user}
login_onSuccess(resp, cx) ==
    [user |-> resp.advisor,
     isAuthenticated |-> TRUE,
     storage |-> setItem(setItem(cx.storage, "token", resp.token),
                         "user", JSON_stringify(resp.advisor)),
     ret |-> Returned([success |-> TRUE, user |-> resp.advisor])]

\* a mutant of login_onFailure: a failed login signs the session out
login_onFailure_clears(resp, cx) ==
    [user |-> NULL,
     isAuthenticated |-> FALSE,
     storage |-> removeItem(removeItem(cx.storage, "token"), "user"),
     ret |-> Returned([success |-> FALSE, message |-> resp.message])]

\* login, response.success false (lines 66-69)
login_onFailure(resp, cx) ==
    [user |-> cx.user,
     isAuthenticated |-> cx.isAuthenticated,
     storage |-> cx.storage,
     ret |-> Returned([success |-> FALSE, message |-> resp.message])]

\* a mutant of login_onError: the catch block rethrows
login_onError_rethrows(resp, cx) ==
    [user |-> cx.user,
     isAuthenticated |-> cx.isAuthenticated,
     storage |-> cx.storage,
     ret |-> Thrown(resp.message)]

\* login, the catch block (lines 70-74)
login_onError(resp, cx) ==
    [user |-> cx.user,
     isAuthenticated |-> cx.isAuthenticated,
     storage |-> cx.storage,
     ret |-> Returned([success |-> FALSE,
                       message |-> OrElse(resp.message,
                                          "Login failed. Please try again.")])]

\* the continuation after `await authAPI.login(credentials)`: the new
\* context and the value the call settles with
login_then(resp, cx) ==
    IF resp.kind = "ok" THEN login_onSuccess(resp, cx)
    ELSE IF resp.kind = "fail" THEN login_onFailure(resp, cx)
    ELSE login_onError(resp, cx)

\* register, response.success true (lines 85-94)
register_onSuccess(resp, cx) ==
    [user |-> resp.advisor,
     isAuthenticated |-> TRUE,
     storage |-> setItem(setItem(cx.storage, "token", resp.token),
                         "user", JSON_stringify(resp.advisor)),
     ret |-> Returned([success |-> TRUE, user |-> resp.advisor])]

\* register, response.success false (lines 95-98)
register_onFailure(resp, cx) ==
    [user |-> cx.user,
     isAuthenticated |-> cx.isAuthenticated,
     storage |-> cx.storage,
     ret |-> Returned([success |-> FALSE, message |-> resp.message])]

\* register, the catch block (lines 99-103)
register_onError(resp, cx) ==
    [user |-> cx.user,
     isAuthenticated |-> cx.isAuthenticated,
     storage |-> cx.storage,
     ret |-> Returned([success |-> FALSE,
                       message |-> OrElse(resp.message,
                                          "Registration failed. Please try again.")])]

\* the continuation after `await authAPI.register(userData)`
register_then(resp, cx) ==
    IF resp.kind = "ok" THEN register_onSuccess(resp, cx)
    ELSE IF resp.kind = "fail" THEN register_onFailure(resp, cx)
    ELSE register_onError(resp, cx)

\* the calls suspended at the await of login or register
AuthInFlight == {d \in Calls : pc[d] \in {"login", "register"}}

\* login(credentials) up to its await
Login(c) ==
    /\ UNCHANGED backendVars
    /\ started
    /\ pc[c] = "idle"
    /\ loading' = TRUE
    /\ pc' = [pc EXCEPT ![c] = "login"]
    /\ overlapWin' = [overlapWin EXCEPT ![c] = FALSE]
    /\ UNCHANGED <<user, isAuthenticated, storage, started, lastReturn, lastWin>>

\* register(userData) up to its await
Register(c) ==
    /\ UNCHANGED backendVars
    /\ started
    /\ pc[c] = "idle"
    /\ loading' = TRUE
    /\ pc' = [pc EXCEPT ![c] = "register"]
    /\ overlapWin' = [overlapWin EXCEPT ![c] = FALSE]
    /\ UNCHANGED <<user, isAuthenticated, storage, started, lastReturn, lastWin>>

\* the bookkeeping of the successful responses: a success is recorded as
\* the last one, and every other login/register still suspended has seen
\* a success resolve while it was in flight
WinBookkeeping(c, resp) ==
    IF resp.kind = "ok"
    THEN /\ lastWin' = Win(c, resp)
         /\ overlapWin' = [d \in Calls |->
                              IF d \in AuthInFlight \ {c} THEN TRUE ELSE overlapWin[d]]
    ELSE UNCHANGED <<lastWin, overlapWin>>

\* the login promise of call c settles with resp
LoginSettle(c, resp) ==
    /\ UNCHANGED backendVars
    /\ pc[c] = "login"
    /\ LET out == login_then(resp, Ctx)
       IN /\ user' = out.user
          /\ isAuthenticated' = out.isAuthenticated
          /\ storage' = out.storage
          /\ lastReturn' = Settled(c, "login", resp, storage, out.ret)
    /\ loading' = FALSE
    /\ pc' = [pc EXCEPT ![c] = "idle"]
    /\ WinBookkeeping(c, resp)
    /\ UNCHANGED started

\* the register promise of call c settles with resp
RegisterSettle(c, resp) ==
    /\ UNCHANGED backendVars
    /\ pc[c] = "register"
    /\ LET out == register_then(resp, Ctx)
       IN /\ user' = out.user
          /\ isAuthenticated' = out.isAuthenticated
          /\ storage' = out.storage
          /\ lastReturn' = Settled(c, "register", resp, storage, out.ret)
    /\ loading' = FALSE
    /\ pc' = [pc EXCEPT ![c] = "idle"]
    /\ WinBookkeeping(c, resp)
    /\ UNCHANGED started

(* ---- logout (lines 109-129) ------------------------------------------ *)

\* authAPI.logout(), of services/api: it purges the persisted token and
\* user whether the server call succeeds or fails
authAPI_logout(st) == removeItem(removeItem(st, "token"), "user")

\* a mutant of logout_await: logout never calls authAPI.logout()
logout_await_skipped(st) == st

\* line 112: logout awaits authAPI.logout()
logout_await(st) == authAPI_logout(st)

\* a mutant of logout_then: the catch block rethrows without clearing
logout_then_rethrows(resp, cx) ==
    IF resp.kind = "resolve"
    THEN [user |-> NULL,
          isAuthenticated |-> FALSE,
          storage |-> cx.storage,
          ret |-> Returned([success |-> TRUE])]
    ELSE [user |-> cx.user,
          isAuthenticated |-> cx.isAuthenticated,
          storage |-> cx.storage,
          ret |-> Thrown("Network Error")]

\* the continuation after `await authAPI.logout()`: the rest of the try
\* body when it resolved, the catch block when it rejected
logout_then(resp, cx) ==
    IF resp.kind = "resolve"
    THEN [user |-> NULL,
          isAuthenticated |-> FALSE,
          storage |-> cx.storage,
          ret |-> Returned([success |-> TRUE])]
    ELSE [user |-> NULL,
          isAuthenticated |-> FALSE,
          storage |-> cx.storage,
          ret |-> Returned([success |-> TRUE])]

\* logout() up to its await
Logout(c) ==
    /\ UNCHANGED backendVars
    /\ started
    /\ pc[c] = "idle"
    /\ loading' = TRUE
    /\ pc' = [pc EXCEPT ![c] = "logout"]
    /\ UNCHANGED <<user, isAuthenticated, storage, started, lastReturn, lastWin,
                   overlapWin>>

\* the logout promise of call c settles
LogoutSettle(c, resp) ==
    /\ UNCHANGED backendVars
    /\ pc[c] = "logout"
    /\ LET out == logout_then(resp, [Ctx EXCEPT !.storage = logout_await(storage)])
       IN /\ user' = out.user
          /\ isAuthenticated' = out.isAuthenticated
          /\ storage' = out.storage
          /\ lastReturn' = Settled(c, "logout", resp, storage, out.ret)
    /\ loading' = FALSE
    /\ pc' = [pc EXCEPT ![c] = "idle"]
    /\ lastWin' = NoWin
    /\ UNCHANGED <<started, overlapWin>>

(* ---- the specification ----------------------------------------------- *)

Next ==
    \/ \E c \in Calls : CheckAuthStatus(c)
    \/ \E c \in Calls, resp \in ProfileResponses : CheckAuthStatusSettle(c, resp)
    \/ \E c \in Calls : Login(c)
    \/ \E c \in Calls, resp \in AuthResponses : LoginSettle(c, resp)
    \/ \E c \in Calls : Register(c)
    \/ \E c \in Calls, resp \in AuthResponses : RegisterSettle(c, resp)
    \/ \E c \in Calls : Logout(c)
    \/ \E c \in Calls, resp \in LogoutResponses : LogoutSettle(c, resp)


(***************************************************************************)
(* The backend's request pipeline (backend/index.js, lines 24-46 and       *)
(* 88-140).  Express runs the layers in the order of their registration;   *)
(* a layer either answers the request, hands it to the next layer, or      *)
(* raises an error, which skips every layer up to the error handler.  Each *)
(* layer is one action.  A request's method, Origin header, body and path  *)
(* are fixed when it arrives; the model draws each of them at the first    *)
(* layer that reads it, which yields the same behaviours.                  *)
(***************************************************************************)

\* the requests the server is handling at the same time.  Requests share
\* nothing but the counter of correlation IDs, so what holds of one request
\* and of any two holds of any number.
Requests == {"r1", "r2"}

\* a field of the request no layer has read yet
UNREAD == "<unread>"

\* process.env.NODE_ENV as the process finds it
EnvValues == {UNDEFINED, "production"}

\* line 11: NODE_ENV = process.env.NODE_ENV || 'development'
NODE_ENV == OrElse(env, "development")

\* lines 32-34: the allow-list handed to cors()
AllowedOrigins ==
    IF env = "production"
    THEN {"https://yourdomain.com"}
    ELSE {"http://localhost:3000", "http://localhost:5173", "http://localhost:5174"}

\* line 39 and line 45: limit: '10mb', in bytes
BodyLimit == 10485760

(* ---- what a request can be ------------------------------------------- *)

Methods == {"GET", "POST", "OPTIONS"}

\* the Origin header: absent, or one of two sites
Origins == {UNDEFINED, "http://localhost:5173", "https://yourdomain.com"}

Paths == {"/", "/api/auth/login", "/api/clients", "/api/unknown"}

NoBody == [ctype |-> UNDEFINED, length |-> 0, wellFormed |-> TRUE]

UnreadBody == [ctype |-> UNREAD, length |-> 0, wellFormed |-> TRUE]

\* the body: its Content-Type, its length in bytes, and whether it parses
Bodies ==
    {NoBody} \cup
    {[ctype |-> "application/json", length |-> BodyLimit, wellFormed |-> w] :
        w \in BOOLEAN} \cup
    {[ctype |-> t, length |-> BodyLimit + 1, wellFormed |-> TRUE] :
        t \in {"application/json", "application/x-www-form-urlencoded", "text/plain"}}

(* ---- errors and responses -------------------------------------------- *)

\* an error passed to next(err); status 0 stands for an error without one
NoError == [raised |-> FALSE, status |-> 0, message |-> UNDEFINED]

Error(status, message) == [raised |-> TRUE, status |-> status, message |-> message]

NoResponse == [sent |-> FALSE, by |-> "none", status |-> 0, type |-> "none",
               body |-> [none |-> TRUE]]

\* res.status(status).json(body), sent by layer `by`
JsonResponse(by, status, body) ==
    [sent |-> TRUE, by |-> by, status |-> status, type |-> "json", body |-> body]

\* a response without a body
EmptyResponse(by, status) ==
    [sent |-> TRUE, by |-> by, status |-> status, type |-> "empty",
     body |-> [none |-> TRUE]]

(* ---- the layers, in registration order ------------------------------- *)

\* a mutant of Middleware: cors is registered before the request-ID and
\* logging middleware
Middleware_corsFirst ==
    <<"cors", "addRequestId", "morganMiddleware", "requestLogger",
      "securityLogger", "json", "urlencoded">>

\* lines 25-46: app.use(...) of the middleware
Middleware ==
    <<"addRequestId", "morganMiddleware", "requestLogger", "securityLogger",
      "cors", "json", "urlencoded">>

\* lines 89-106: the routes
Routes == <<"health", "authRoutes", "clientRoutes">>

\* the layer next() reaches from a middleware: the middleware registered
\* after it, or the routes
AfterMiddleware(layer) ==
    LET i == CHOOSE k \in 1..Len(Middleware) : Middleware[k] = layer
    IN IF i < Len(Middleware) THEN Middleware[i + 1] ELSE "route"

\* whether a route layer takes the request: app.get('/') takes GET / alone,
\* a router mounted with app.use(prefix) takes every path under its prefix
Matches(layer, method, path) ==
    IF layer = "health" THEN method = "GET" /\ path = "/"
    ELSE IF layer = "authRoutes" THEN path \in {"/api/auth/login"}
    ELSE IF layer = "clientRoutes" THEN path \in {"/api/clients"}
    ELSE FALSE

\* the first route after position i that takes the request; without one
\* the request reaches the 404 handler (the error handler, registered
\* before it, is skipped when no error is pending)
RouteAfter(i, method, path) ==
    LET later == {k \in (i + 1)..Len(Routes) : Matches(Routes[k], method, path)}
    IN IF later = {} THEN "notFound"
       ELSE Routes[CHOOSE k \in later : \A j \in later : k <= j]

RoutePosition(layer) == CHOOSE k \in 1..Len(Routes) : Routes[k] = layer

(* ---- the state of a request ------------------------------------------ *)

IdleRequest ==
    [stage |-> "idle", method |-> UNREAD, origin |-> UNREAD, body |-> UnreadBody,
     path |-> UNREAD, requestId |-> UNDEFINED,
     headers |-> [requestId |-> UNDEFINED, allowOrigin |-> UNDEFINED],
     err |-> NoError, res |-> NoResponse, trace |-> <<>>]

\* layer has run for the request and handed it to stage `next`
Ran(req, layer, next) ==
    [req EXCEPT !.trace = Append(@, layer), !.stage = next]

\* layer has run for the request and answered it
Answered(req, layer, res) ==
    [req EXCEPT !.trace = Append(@, layer), !.stage = "done", !.res = res]

\* layer has run for the request and passed an error to next(err)
Raised(req, layer, err) ==
    [req EXCEPT !.trace = Append(@, layer), !.stage = "errorHandler", !.err = err]

ServerInit ==
    /\ env \in EnvValues
    /\ requests = [r \in Requests |-> IdleRequest]
    /\ nextId = 0

\* app.listen (line 157): a request arrives and enters the first layer
Receive(r) ==
    /\ UNCHANGED <<vars, dbVars>>
    /\ requests[r].stage = "idle"
    /\ requests' = [requests EXCEPT ![r].stage = Head(Middleware)]
    /\ UNCHANGED <<env, nextId>>

(* ---- request-ID and logging middleware (lines 25-28) ----------------- *)

\* the n-th correlation ID of middleware/requestLogger: unique per request
generateRequestId(n) == "req-" \o ToString(n)

\* addRequestId, of middleware/requestLogger: attaches a fresh correlation
\* ID to the request and sets it as a header of the response
addRequestId(req, n) ==
    [req EXCEPT !.requestId = generateRequestId(n),
                !.headers.requestId = generateRequestId(n)]

\* morganMiddleware, requestLogger and securityLogger, of
\* middleware/requestLogger: they log and never block the request
logOnly(req) == req

AddRequestId(r) ==
    /\ UNCHANGED <<vars, dbVars>>
    /\ requests[r].stage = "addRequestId"
    /\ requests' = [requests EXCEPT ![r] =
          Ran(addRequestId(@, nextId), "addRequestId", AfterMiddleware("addRequestId"))]
    /\ nextId' = nextId + 1
    /\ UNCHANGED env

MorganMiddleware(r) ==
    /\ UNCHANGED <<vars, dbVars>>
    /\ requests[r].stage = "morganMiddleware"
    /\ requests' = [requests EXCEPT ![r] =
          Ran(logOnly(@), "morganMiddleware", AfterMiddleware("morganMiddleware"))]
    /\ UNCHANGED <<env, nextId>>

RequestLogger(r) ==
    /\ UNCHANGED <<vars, dbVars>>
    /\ requests[r].stage = "requestLogger"
    /\ requests' = [requests EXCEPT ![r] =
          Ran(logOnly(@), "requestLogger", AfterMiddleware("requestLogger"))]
    /\ UNCHANGED <<env, nextId>>

SecurityLogger(r) ==
    /\ UNCHANGED <<vars, dbVars>>
    /\ requests[r].stage = "securityLogger"
    /\ requests' = [requests EXCEPT ![r] =
          Ran(logOnly(@), "securityLogger", AfterMiddleware("securityLogger"))]
    /\ UNCHANGED <<env, nextId>>

(* ---- cors (lines 31-36) ---------------------------------------------- *)

\* the Access-Control-Allow-Origin header cors() sets for a static list of
\* origins: the request's origin when it is on the list, none otherwise
cors_allowOrigin(origin) ==
    IF origin \in AllowedOrigins THEN origin ELSE UNDEFINED

\* cors() with a static list never fails a request: it sets its headers
\* and calls next(), and it answers an OPTIONS request itself with 204
Cors(r, method, origin) ==
    /\ UNCHANGED <<vars, dbVars>>
    /\ requests[r].stage = "cors"
    /\ LET req == [requests[r] EXCEPT !.method = method, !.origin = origin,
                                      !.headers.allowOrigin = cors_allowOrigin(origin)]
       IN requests' = [requests EXCEPT ![r] =
             IF method = "OPTIONS"
             THEN Answered(req, "cors", EmptyResponse("cors", 204))
             ELSE Ran(req, "cors", AfterMiddleware("cors"))]
    /\ UNCHANGED <<env, nextId>>

(* ---- body parsing (lines 38-46) -------------------------------------- *)

\* a mutant of json_parse: no limit on the size of the body
json_parse_unlimited(body) ==
    IF body.ctype # "application/json" THEN NoError
    ELSE IF ~body.wellFormed THEN Error(400, "Unexpected token in JSON")
    ELSE NoError

\* express.json({limit: '10mb', strict: true}): it reads a body of type
\* application/json alone; a body over the limit raises 413, one that does
\* not parse raises 400
json_parse(body) ==
    IF body.ctype # "application/json" THEN NoError
    ELSE IF body.length > BodyLimit THEN Error(413, "request entity too large")
    ELSE IF ~body.wellFormed THEN Error(400, "Unexpected token in JSON")
    ELSE NoError

\* express.urlencoded({extended: true, limit: '10mb'})
urlencoded_parse(body) ==
    IF body.ctype # "application/x-www-form-urlencoded" THEN NoError
    ELSE IF body.length > BodyLimit THEN Error(413, "request entity too large")
    ELSE NoError

Json(r, body) ==
    /\ UNCHANGED <<vars, dbVars>>
    /\ requests[r].stage = "json"
    /\ LET req == [requests[r] EXCEPT !.body = body]
           err == json_parse(body)
       IN requests' = [requests EXCEPT ![r] =
             IF err.raised THEN Raised(req, "json", err)
             ELSE Ran(req, "json", AfterMiddleware("json"))]
    /\ UNCHANGED <<env, nextId>>

Urlencoded(r) ==
    /\ UNCHANGED <<vars, dbVars>>
    /\ requests[r].stage = "urlencoded"
    /\ LET err == urlencoded_parse(requests[r].body)
       IN requests' = [requests EXCEPT ![r] =
             IF err.raised THEN Raised(@, "urlencoded", err)
             ELSE Ran(@, "urlencoded", AfterMiddleware("urlencoded"))]
    /\ UNCHANGED <<env, nextId>>

(* ---- routes (lines 88-106) ------------------------------------------- *)

\* the router looks for the first route that takes the request
Route(r, path) ==
    /\ UNCHANGED <<vars, dbVars>>
    /\ requests[r].stage = "route"
    /\ LET req == requests[r]
       IN requests' = [requests EXCEPT ![r] =
             [req EXCEPT !.path = path, !.stage = RouteAfter(0, req.method, path)]]
    /\ UNCHANGED <<env, nextId>>

\* lines 90-98: the body of the health probe's answer
healthStatus ==
    [message |-> "RICHIEAT Backend API is running!",
     version |-> "1.0.0",
     status |-> "active",
     timestamp |-> "<now>",
     environment |-> NODE_ENV,
     database |-> IF readyState = 1 THEN "connected" ELSE "disconnected",
     uptime |-> "<uptime>"]

\* GET / (lines 89-102)
HealthCheck(r) ==
    /\ UNCHANGED <<vars, dbVars>>
    /\ requests[r].stage = "health"
    /\ requests' = [requests EXCEPT ![r] =
          Answered(@, "health", JsonResponse("health", 200, healthStatus))]
    /\ UNCHANGED <<env, nextId>>

\* what a handler of routes/auth or routes/clients does with a request:
\* it answers with a JSON body that has a boolean success, or it raises an
\* error (with or without a status), or no route of the router matches
RouteOutcomes ==
    {[kind |-> "respond", status |-> 200, success |-> TRUE, message |-> UNDEFINED],
     [kind |-> "respond", status |-> 401, success |-> FALSE, message |-> UNDEFINED],
     [kind |-> "throw", status |-> 0, success |-> FALSE, message |-> "E11000 duplicate key"],
     [kind |-> "throw", status |-> 409, success |-> FALSE, message |-> "E11000 duplicate key"],
     [kind |-> "next", status |-> 0, success |-> FALSE, message |-> UNDEFINED]}

\* a router of routes/: the request after the router has handled it
router(req, layer, out) ==
    IF out.kind = "respond"
    THEN Answered(req, layer, JsonResponse(layer, out.status, [success |-> out.success]))
    ELSE IF out.kind = "throw"
    THEN Raised(req, layer, Error(out.status, out.message))
    ELSE Ran(req, layer, RouteAfter(RoutePosition(layer), req.method, req.path))

\* app.use('/api/auth', ...) (line 105)
AuthRoutes(r, out) ==
    /\ UNCHANGED <<vars, dbVars>>
    /\ requests[r].stage = "authRoutes"
    /\ requests' = [requests EXCEPT ![r] = router(@, "authRoutes", out)]
    /\ UNCHANGED <<env, nextId>>

\* app.use('/api/clients', ...) (line 106)
ClientRoutes(r, out) ==
    /\ UNCHANGED <<vars, dbVars>>
    /\ requests[r].stage = "clientRoutes"
    /\ requests' = [requests EXCEPT ![r] = router(@, "clientRoutes", out)]
    /\ UNCHANGED <<env, nextId>>

(* ---- terminal handlers (lines 108-140) ------------------------------- *)

\* a mutant of errorHandler: the error's message is sent in every mode
errorHandler_leaks(req) ==
    JsonResponse("errorHandler",
                 IF req.err.status # 0 THEN req.err.status ELSE 500,
                 [success |-> FALSE,
                  message |-> "Something went wrong!",
                  error |-> req.err.message,
                  requestId |-> req.requestId])

\* the global error handler's answer (lines 117-126)
errorHandler(req) ==
    JsonResponse("errorHandler",
                 IF req.err.status # 0 THEN req.err.status ELSE 500,
                 [success |-> FALSE,
                  message |-> "Something went wrong!",
                  error |-> IF NODE_ENV = "production"
                            THEN "Internal server error"
                            ELSE req.err.message,
                  requestId |-> req.requestId])

\* a mutant of notFound: the answer leaves the request's ID out
notFound_noId(req) ==
    JsonResponse("notFound", 404,
                 [success |-> FALSE,
                  message |-> "Route not found",
                  requestId |-> UNDEFINED])

\* the 404 handler's answer (lines 135-139)
notFound(req) ==
    JsonResponse("notFound", 404,
                 [success |-> FALSE,
                  message |-> "Route not found",
                  requestId |-> req.requestId])

ErrorHandler(r) ==
    /\ UNCHANGED <<vars, dbVars>>
    /\ requests[r].stage = "errorHandler"
    /\ requests' = [requests EXCEPT ![r] = Answered(@, "errorHandler", errorHandler(@))]
    /\ UNCHANGED <<env, nextId>>

NotFound(r) ==
    /\ UNCHANGED <<vars, dbVars>>
    /\ requests[r].stage = "notFound"
    /\ requests' = [requests EXCEPT ![r] = Answered(@, "notFound", notFound(@))]
    /\ UNCHANGED <<env, nextId>>

ServerNext ==
    \/ \E r \in Requests : Receive(r)
    \/ \E r \in Requests : AddRequestId(r)
    \/ \E r \in Requests : MorganMiddleware(r)
    \/ \E r \in Requests : RequestLogger(r)
    \/ \E r \in Requests : SecurityLogger(r)
    \/ \E r \in Requests, method \in Methods, origin \in Origins : Cors(r, method, origin)
    \/ \E r \in Requests, body \in Bodies : Json(r, body)
    \/ \E r \in Requests : Urlencoded(r)
    \/ \E r \in Requests, path \in Paths : Route(r, path)
    \/ \E r \in Requests : HealthCheck(r)
    \/ \E r \in Requests, out \in RouteOutcomes : AuthRoutes(r, out)
    \/ \E r \in Requests, out \in RouteOutcomes : ClientRoutes(r, out)
    \/ \E r \in Requests : ErrorHandler(r)
    \/ \E r \in Requests : NotFound(r)

(***************************************************************************)
(* The MongoDB connection (backend/index.js, lines 48-86).                 *)
(* connectWithRetry logs the attempt and calls mongoose.connect; when the  *)
(* promise rejects, its catch handler sets a timer that calls              *)
(* connectWithRetry again.  The counters of the log saturate at            *)
(* MaxAttempts, which keeps the state space finite without stopping the    *)
(* retries.                                                                *)
(***************************************************************************)

\* the value at which the counters of the database log stop counting
MaxAttempts == 4

\* line 68: setTimeout(connectWithRetry, 5000)
RetryDelay == 5000

\* a counter of the log, one step on
Inc(n) == IF n < MaxAttempts THEN n + 1 ELSE n

\* mongoose.connection.readyState
Disconnected == 0
Connected == 1
Connecting == 2

\* the connection and its log before line 86 runs
BlankDb ==
    [readyState |-> Disconnected, connecting |-> 0, timers |-> <<>>,
     dbLog |-> [attempt |-> 0, success |-> 0, error |-> 0,
                disconnected |-> 0, reconnected |-> 0]]

\* the connection and its log, as one record
Db == [readyState |-> readyState, connecting |-> connecting, timers |-> timers,
       dbLog |-> dbLog]

\* connectWithRetry (lines 49-60): log the attempt, call mongoose.connect
connectWithRetry(d) ==
    [d EXCEPT !.dbLog.attempt = Inc(@),
              !.connecting = @ + 1,
              !.readyState = Connecting]

\* the .then handler (lines 61-64)
connect_then(d) ==
    [d EXCEPT !.dbLog.success = Inc(@),
              !.connecting = @ - 1,
              !.readyState = Connected]

\* a mutant of connect_catch: the retry is scheduled twice
connect_catch_twice(d) ==
    [d EXCEPT !.dbLog.error = Inc(@),
              !.connecting = @ - 1,
              !.readyState = Disconnected,
              !.timers = Append(Append(@, RetryDelay), RetryDelay)]

\* the .catch handler (lines 65-69): log the failure, retry in 5 seconds
connect_catch(d) ==
    [d EXCEPT !.dbLog.error = Inc(@),
              !.connecting = @ - 1,
              !.readyState = Disconnected,
              !.timers = Append(@, RetryDelay)]

\* the db variables become the record d
DbBecomes(d) ==
    /\ readyState' = d.readyState
    /\ connecting' = d.connecting
    /\ timers' = d.timers
    /\ dbLog' = d.dbLog

\* line 86: the module has called connectWithRetry() once
DbInit ==
    /\ reachable \in BOOLEAN
    /\ LET d == connectWithRetry(BlankDb)
       IN /\ readyState = d.readyState
          /\ connecting = d.connecting
          /\ timers = d.timers
          /\ dbLog = d.dbLog

\* a mongoose.connect promise resolves: the database was reachable
ConnectResolves ==
    /\ UNCHANGED <<vars, serverVars>>
    /\ connecting > 0
    /\ reachable
    /\ DbBecomes(connect_then(Db))
    /\ UNCHANGED reachable

\* a mongoose.connect promise rejects: the database was not reachable
\* (server selection times out after serverSelectionTimeoutMS)
ConnectRejects ==
    /\ UNCHANGED <<vars, serverVars>>
    /\ connecting > 0
    /\ ~reachable
    /\ DbBecomes(connect_catch(Db))
    /\ UNCHANGED reachable

\* a retry timer fires and calls connectWithRetry
RetryTimerFires ==
    /\ UNCHANGED <<vars, serverVars>>
    /\ timers # <<>>
    /\ DbBecomes(connectWithRetry([Db EXCEPT !.timers = Tail(@)]))
    /\ UNCHANGED reachable

\* the database becomes unreachable or reachable
ReachabilityChanges ==
    /\ UNCHANGED <<vars, serverVars>>
    /\ reachable' = ~reachable
    /\ UNCHANGED <<readyState, connecting, timers, dbLog>>

\* an established connection is lost; the 'disconnected' listener
\* (lines 73-75) logs a warning and starts no new attempt
ConnectionLost ==
    /\ UNCHANGED <<vars, serverVars>>
    /\ readyState = Connected
    /\ ~reachable
    /\ readyState' = Disconnected
    /\ dbLog' = [dbLog EXCEPT !.disconnected = Inc(@)]
    /\ UNCHANGED <<connecting, timers, reachable>>

\* the driver re-establishes a lost connection; the 'reconnected' listener
\* (lines 77-79) logs it
ConnectionRestored ==
    /\ UNCHANGED <<vars, serverVars>>
    /\ readyState = Disconnected
    /\ dbLog.success > 0
    /\ reachable
    /\ readyState' = Connected
    /\ dbLog' = [dbLog EXCEPT !.reconnected = Inc(@)]
    /\ UNCHANGED <<connecting, timers, reachable>>

DbNext ==
    \/ ConnectResolves
    \/ ConnectRejects
    \/ RetryTimerFires
    \/ ReachabilityChanges
    \/ ConnectionLost
    \/ ConnectionRestored

(* ---- the specifications ---------------------------------------------- *)

\* the frontend before any call: the state the other parts leave it in
FrontendIdle == Init /\ storage = EmptyStorage

\* the database connection as the other specifications leave it
DbIdle == DbInit /\ reachable = TRUE

\* the request pipeline before any request
ServerIdle == ServerInit /\ env = UNDEFINED

\* the Auth Context
SpecInit == Init /\ ServerIdle /\ DbIdle

Spec == SpecInit /\ [][Next]_allVars

\* the request pipeline
ServerSpecInit == FrontendIdle /\ ServerInit /\ DbIdle

ServerSpec == ServerSpecInit /\ [][ServerNext]_allVars

\* the database connection.  The event loop settles every pending connect
\* promise (mongoose gives up the server selection after 5 seconds) and
\* fires every pending timer.
DbSpecInit == FrontendIdle /\ ServerIdle /\ DbInit

DbSpec ==
    /\ DbSpecInit
    /\ [][DbNext]_allVars
    /\ WF_allVars(ConnectResolves)
    /\ WF_allVars(ConnectRejects)
    /\ WF_allVars(RetryTimerFires)

(* ---- steps of the calls ---------------------------------------------- *)

\* this step is the continuation of call c of operation op
Settles(c, op) == pc[c] = op /\ pc'[c] = "idle"

\* this step is the synchronous start of call c of operation op
Starts(c, op) == pc[c] = "idle" /\ pc'[c] = op

\* this step is a checkAuthStatus() call that finds no token (or no user)
\* persisted and returns without awaiting: the one step that suspends and
\* resumes no call
ChecksNoToken(c) ==
    /\ pc' = pc
    /\ lastReturn'.call = c
    /\ lastReturn'.op = "checkAuthStatus"
    /\ lastReturn'.resp.kind = "none"

\* both persisted keys are absent
Purged(st) == getItem(st, "token") = NULL /\ getItem(st, "user") = NULL

(* ---- C1 -------------------------------------------------------------- *)

C2_LogoutClearsContext ==
    [][\A c \in Calls : Settles(c, "logout") =>
          /\ user' = NULL
          /\ isAuthenticated' = FALSE
          /\ loading' = FALSE
          /\ lastReturn'.call = c
          /\ lastReturn'.op = "logout"
          /\ lastReturn'.threw = FALSE
          /\ lastReturn'.value = [success |-> TRUE]]_vars

\* a logout of an authenticated session whose server call rejected has
\* finished while a login was still suspended
C2_Witness ==
    /\ lastReturn.op = "logout"
    /\ lastReturn.resp.kind = "reject"
    /\ lastReturn.hadToken
    /\ user = NULL
    /\ ~isAuthenticated
    /\ ~loading
    /\ \E d \in Calls : pc[d] = "login"

(* ---- C3 -------------------------------------------------------------- *)

\* C3: checkAuthStatus() ends unauthenticated (isAuthenticated = false,
\* loading = false) when no token is persisted or when the profile fetch
\* fails, and in the failure case both persisted keys have been removed.
C3_CheckEndsUnauthenticated ==
    [][\A c \in Calls :
          /\ ChecksNoToken(c) => (isAuthenticated' = FALSE /\ loading' = FALSE)
          /\ (Settles(c, "checkAuthStatus") /\ lastReturn'.resp.kind # "ok") =>
                /\ isAuthenticated' = FALSE
                /\ loading' = FALSE
                /\ Purged(storage')]_vars

(* ---- C4 -------------------------------------------------------------- *)

\* C4: a checkAuthStatus() that found a token persisted and whose profile
\* fetch succeeds ends authenticated, with user the advisor the server
\* returned.
C4_CheckEndsAuthenticated ==
    [][\A c \in Calls :
          (Settles(c, "checkAuthStatus") /\ lastReturn'.resp.kind = "ok") =>
             /\ isAuthenticated' = TRUE
             /\ user' = lastReturn'.resp.advisor]_vars

\* a check has ended with a successful profile fetch whose advisor is not
\* the one persisted, and the context holds the server's advisor
C4_Witness ==
    /\ lastReturn.op = "checkAuthStatus"
    /\ lastReturn.resp.kind = "ok"
    /\ lastReturn.hadToken
    /\ isAuthenticated
    /\ user = lastReturn.resp.advisor
    /\ getItem(storage, "user") # JSON_stringify(user)

(* ---- C5 -------------------------------------------------------------- *)

\* C5: a login() or register() whose response has success = true persists
\* the response's token under 'token' and its advisor, serialized, under
\* 'user', sets user to that advisor and isAuthenticated to true, and
\* resolves with {success: true, user}.
C5_AuthSuccessPersists ==
    [][\A c \in Calls : \A op \in {"login", "register"} :
          (Settles(c, op) /\ lastReturn'.resp.kind = "ok") =>
             /\ getItem(storage', "token") = lastReturn'.resp.token
             /\ getItem(storage', "user") = JSON_stringify(lastReturn'.resp.advisor)
             /\ user' = lastReturn'.resp.advisor
             /\ isAuthenticated' = TRUE
             /\ lastReturn'.threw = FALSE
             /\ lastReturn'.value =
                   [success |-> TRUE, user |-> lastReturn'.resp.advisor]]_vars

\* a register has succeeded from storage holding no token
C5_Witness ==
    /\ lastReturn.op = "register"
    /\ lastReturn.resp.kind = "ok"
    /\ ~lastReturn.hadToken
    /\ getItem(storage, "token") = lastReturn.resp.token
    /\ isAuthenticated

(* ---- C6 -------------------------------------------------------------- *)

\* C6: a login() or register() call that fails (success = false, or a thrown
\* error) sets no token: neither of its two steps changes the persisted
\* 'token' and 'user' keys, user or isAuthenticated.
C6_AuthFailureFrame ==
    [][\A c \in Calls : \A op \in {"login", "register"} :
          (Starts(c, op) \/ (Settles(c, op) /\ lastReturn'.resp.kind # "ok")) =>
             UNCHANGED <<storage, user, isAuthenticated>>]_vars

\* a login has failed on an authenticated session, which is still there
C6_Witness ==
    /\ lastReturn.op = "login"
    /\ lastReturn.resp.kind \in {"fail", "throw"}
    /\ lastReturn.hadToken
    /\ isAuthenticated
    /\ Truthy(getItem(storage, "token"))

(* ---- C7 -------------------------------------------------------------- *)

\* C7: while a checkAuthStatus() call is in flight the context is in the
\* checking state, loading = true, also when a login, register or logout
\* starts or finishes during the check.
C7_CheckingWhileInFlight ==
    \A c \in Calls : pc[c] = "checkAuthStatus" => loading = TRUE

(* ---- C8 -------------------------------------------------------------- *)

\* C8: when login/register calls were in flight at once and more than one
\* succeeded, the user of the context and the persisted 'token' and 'user'
\* come from the successful response that resolved last (as long as no
\* logout or checkAuthStatus has settled after it).
C8_LastResponseWins ==
    (lastWin.call # 0 /\ overlapWin[lastWin.call]) =>
        /\ user = lastWin.advisor
        /\ getItem(storage, "token") = lastWin.token
        /\ getItem(storage, "user") = JSON_stringify(lastWin.advisor)

\* a login has succeeded after another login/register succeeded while it
\* was in flight, no call is left in flight, and the context and the
\* storage hold what the later response carried
C8_Witness ==
    /\ lastWin.call # 0
    /\ overlapWin[lastWin.call]
    /\ lastReturn.call = lastWin.call
    /\ lastReturn.op = "login"
    /\ lastReturn.hadToken
    /\ user = lastWin.advisor
    /\ getItem(storage, "token") = lastWin.token
    /\ \A d \in Calls : pc[d] = "idle"

(* ---- C9 -------------------------------------------------------------- *)

\* C9: in every reachable state the persisted 'token' and 'user' keys are
\* both present or both absent; logout and a failed verification remove
\* them together.
C9_KeysTogether ==
    (getItem(storage, "token") = NULL) <=> (getItem(storage, "user") = NULL)

\* a verification failure has removed a persisted pair
C9_Witness ==
    /\ lastReturn.op = "checkAuthStatus"
    /\ lastReturn.resp.kind = "fail"
    /\ lastReturn.hadToken
    /\ Purged(storage)

(* ---- C10 ------------------------------------------------------------- *)

\* C10: no login, register or logout call throws to its caller; a login or
\* register whose response has success = false, or whose request threw,
\* resolves with an object of shape {success: false, message}.
C10_FailuresResolve ==
    [][\A c \in Calls :
          /\ \A op \in {"login", "register", "logout"} :
                Settles(c, op) => (lastReturn'.call = c /\ lastReturn'.threw = FALSE)
          /\ \A op \in {"login", "register"} :
                (Settles(c, op) /\ lastReturn'.resp.kind \in {"fail", "throw"}) =>
                   /\ DOMAIN lastReturn'.value = {"success", "message"}
                   /\ lastReturn'.value.success = FALSE]_vars

\* a register whose request threw an error without a message has resolved
\* with the fallback message
C10_Witness ==
    /\ lastReturn.op = "register"
    /\ lastReturn.resp.kind = "throw"
    /\ lastReturn.resp.message = ""
    /\ ~lastReturn.threw
    /\ lastReturn.value = [success |-> FALSE,
                           message |-> "Registration failed. Please try again."]

(* ---- C11 ------------------------------------------------------------- *)

C12_JsonHasSuccessAndId ==
    \A r \in Requests :
       (requests[r].res.sent /\ requests[r].res.type = "json") =>
          /\ "success" \in DOMAIN requests[r].res.body
          /\ requests[r].res.body.success \in BOOLEAN
          /\ requests[r].requestId # UNDEFINED
          /\ requests[r].headers.requestId = requests[r].requestId

(* ---- C13 ------------------------------------------------------------- *)

\* s is a prefix of t
IsPrefix(s, t) ==
    /\ Len(s) <= Len(t)
    /\ \A i \in 1..Len(s) : s[i] = t[i]

\* the layers that end the pipeline or answer a route
Handlers == {"health", "authRoutes", "clientRoutes", "errorHandler", "notFound"}

\* C13: the layers a request has gone through are, in this order:
\* request-ID assignment, the three loggers, CORS, the JSON parser, the
\* URL-encoded parser, then route handlers, then the error handler or the
\* 404 handler; a request leaves the order only by being answered or by an
\* error, and no handler runs for a request that has no request ID yet.
C13_FixedOrder ==
    \A r \in Requests :
       LET t == requests[r].trace
           order == <<"addRequestId", "morganMiddleware", "requestLogger",
                      "securityLogger", "cors", "json", "urlencoded">>
       IN \A i \in 1..Len(t) :
             /\ t[i] \notin Handlers => (i <= Len(order) /\ t[i] = order[i])
             /\ t[i] \in Handlers =>
                   /\ i > 1
                   /\ t[1] = "addRequestId"
                   /\ requests[r].requestId # UNDEFINED
                   /\ \A j \in 1..(i - 1) : t[j] \notin {"errorHandler", "notFound"}
                   /\ \A j \in (i + 1)..Len(t) : t[j] \in Handlers
             /\ t[i] \in {"health", "authRoutes", "clientRoutes", "notFound"} =>
                   i > Len(order)
             /\ t[i] = "errorHandler" => i >= Len(order)

\* a request has gone through the seven middleware, a router that raised
\* an error, and the error handler
C13_Witness ==
    \E r \in Requests :
       /\ Len(requests[r].trace) = 9
       /\ requests[r].trace[7] = "urlencoded"
       /\ requests[r].trace[8] = "authRoutes"
       /\ requests[r].trace[9] = "errorHandler"
       /\ requests[r].res.sent

(* ---- C14 ------------------------------------------------------------- *)

\* C14: an answer of the global error handler has success = false, the
\* request's ID, and the status of the error or 500 when the error has
\* none; in production mode no field of it is the error's message, in
\* development mode its error field is the error's message.
C14_ErrorResponse ==
    \A r \in Requests :
       (requests[r].res.sent /\ requests[r].res.by = "errorHandler") =>
          LET res == requests[r].res
              err == requests[r].err
          IN /\ err.raised
             /\ res.type = "json"
             /\ res.body.success = FALSE
             /\ requests[r].requestId # UNDEFINED
             /\ res.body.requestId = requests[r].requestId
             /\ res.status = (IF err.status # 0 THEN err.status ELSE 500)
             /\ NODE_ENV = "production" =>
                   \A f \in DOMAIN res.body \ {"success"} : res.body[f] # err.message
             /\ NODE_ENV = "development" => res.body.error = err.message

\* in production, the error handler has answered 500 to an error without a
\* status, and the answer hides the error's message
C14_Witness ==
    \E r \in Requests :
       /\ NODE_ENV = "production"
       /\ requests[r].res.sent
       /\ requests[r].res.by = "errorHandler"
       /\ requests[r].err.status = 0
       /\ requests[r].err.message = "E11000 duplicate key"
       /\ requests[r].res.status = 500
       /\ requests[r].res.body.error = "Internal server error"

(* ---- C15 ------------------------------------------------------------- *)

\* C15: a request whose Origin is not on the list of allowed origins is
\* answered by the CORS stage with a status of the 403 class, and goes
\* through no body parser and no handler.
C15_DisallowedOriginRejected ==
    \A r \in Requests :
       (/\ requests[r].origin \notin {UNREAD, UNDEFINED}
        /\ requests[r].origin \notin AllowedOrigins)
       => /\ requests[r].res.sent
          /\ requests[r].res.by = "cors"
          /\ requests[r].res.status \in 400..499
          /\ requests[r].trace[Len(requests[r].trace)] = "cors"

(* ---- C16 ------------------------------------------------------------- *)

\* the request was answered with this status by the error handler, and no
\* route handler ran for it
RejectedWith(req, status) ==
    /\ req.res.by = "errorHandler"
    /\ req.res.status = status
    /\ \A i \in 1..Len(req.trace) :
          req.trace[i] \notin {"health", "authRoutes", "clientRoutes", "notFound"}

\* C16 (as stated): an answered request whose body is larger than 10MB was
\* rejected with 413, and one whose body is malformed JSON with 400, by the
\* error handler and without any route handler running.
C16_BodyErrors ==
    \A r \in Requests :
       (requests[r].res.sent /\ requests[r].body.ctype # UNREAD) =>
          /\ requests[r].body.length > BodyLimit => RejectedWith(requests[r], 413)
          /\ ~requests[r].body.wellFormed => RejectedWith(requests[r], 400)

\* C16 (amended): an answered request that reached the body parsers was
\* rejected with 413 when its body is of type application/json or
\* application/x-www-form-urlencoded and larger than 10MB, and with 400
\* when its body is of type application/json, within the limit and
\* malformed; both by the error handler, without any route handler running.
C16_ParsedBodyErrors ==
    \A r \in Requests :
       (requests[r].res.sent /\ requests[r].body.ctype # UNREAD) =>
          /\ (/\ requests[r].body.ctype \in
                    {"application/json", "application/x-www-form-urlencoded"}
              /\ requests[r].body.length > BodyLimit)
             => RejectedWith(requests[r], 413)
          /\ (/\ requests[r].body.ctype = "application/json"
              /\ requests[r].body.length <= BodyLimit
              /\ ~requests[r].body.wellFormed)
             => RejectedWith(requests[r], 400)

\* one request with a JSON body over the limit was answered 413, another
\* with a malformed JSON body within the limit was answered 400
C16_Witness ==
    \E r1, r2 \in Requests :
       /\ requests[r1].body.ctype = "application/json"
       /\ requests[r1].body.length > BodyLimit
       /\ requests[r1].res.sent
       /\ requests[r1].res.status = 413
       /\ requests[r2].body.ctype = "application/json"
       /\ requests[r2].body.length <= BodyLimit
       /\ ~requests[r2].body.wellFormed
       /\ requests[r2].res.sent
       /\ requests[r2].res.status = 400

(* ---- C17 ------------------------------------------------------------- *)

\* C17: at most one connection attempt is in flight or scheduled at a time;
\* every attempt is logged; a failed attempt schedules exactly one retry,
\* 5 seconds later; no attempt is in flight or scheduled once an attempt
\* has succeeded; and if the database eventually stays reachable, an
\* attempt eventually succeeds, however many attempts failed before.
C17_RetryUntilConnected ==
    /\ [](connecting + Len(timers) <= 1)
    /\ [](\A i \in 1..Len(timers) : timers[i] = RetryDelay)
    /\ [](connecting > 0 => dbLog.attempt > 0)
    /\ [](dbLog.success > 0 => (connecting = 0 /\ timers = <<>>))
    /\ [][connecting' > connecting => dbLog'.attempt = Inc(dbLog.attempt)]_allVars
    /\ [][(connecting' < connecting /\ readyState' # Connected)
             => timers' = Append(timers, RetryDelay)]_allVars
    /\ (<>[]reachable) => <>(dbLog.success > 0)

\* the third attempt has succeeded after two failures
C17_Witness ==
    /\ dbLog.attempt = 3
    /\ dbLog.error = 2
    /\ dbLog.success = 1
    /\ readyState = Connected
    /\ connecting = 0
    /\ timers = <<>>

(* ---- C18 ------------------------------------------------------------- *)

\* C18: in every reachable state isAuthenticated = true implies that a
\* token is persisted under 'token'.
C18_AuthenticatedHasToken ==
    isAuthenticated => Truthy(getItem(storage, "token"))

(* ---- C19 ------------------------------------------------------------- *)

\* C19: in every reachable state isAuthenticated is true exactly when user
\* is not null.
C19_AuthenticatedIffUser ==
    isAuthenticated <=> (user # NULL)

\* a logout has settled on a session that had a token, while a
\* checkAuthStatus is still in flight: user and isAuthenticated are both
\* cleared
C19_Witness ==
    /\ lastReturn.op = "logout"
    /\ lastReturn.hadToken
    /\ user = NULL
    /\ ~isAuthenticated
    /\ \E d \in Calls : pc[d] = "checkAuthStatus"

(* ---- C20 ------------------------------------------------------------- *)

\* C20: loading is true whenever at least one login, register or logout
\* call is still awaiting its server response.
C20_LoadingWhileAwaiting ==
    (\E c \in Calls : pc[c] \in {"login", "register", "logout"}) => loading = TRUE

====
